---- MODULE Spec2Model ----
(***************************************************************************)
(* Model of the pairsona channel server connection layer:                  *)
(*   channelserver/src/session.rs  the per-connection websocket actor      *)
(*   channelserver/src/meta.rs     connection metadata (remote address)    *)
(*                                                                         *)
(* Text is modelled as a sequence of one-character strings, so that        *)
(* splitting, trimming, parsing and formatting are computed.               *)
(***************************************************************************)
EXTENDS Integers, Sequences, FiniteSets, TLC

(***************************************************************************)
(* Bounds of the model.                                                    *)
(***************************************************************************)
MaxEvents == 2
MaxHops == 3
MaxEntries == 4
MaxPrefs == 3
MultiEvents == 1

(***************************************************************************)
(* Configuration of WsChannelSessionState (seconds).                       *)
(***************************************************************************)
client_timeout == 1
connection_lifespan == 2

\* Option<T>: None, or Some(x) holding one value
None == <<>>
Some(x) == <<x>>
Unwrap(opt) == opt[1]

VARIABLES
    live,            \* the sessions that exist in this run
    now,             \* Instant::now()
    flags,           \* actor context state of each session
    wait,            \* the Connect future registered with ctx.wait is unresolved
    id,              \* WsChannelSession::id
    hb,              \* WsChannelSession::hb
    expiry,          \* WsChannelSession::expiry
    channel,         \* WsChannelSession::channel
    meta,            \* WsChannelSession::meta
    initial_connect, \* WsChannelSession::initial_connect
    stream,          \* inbound websocket frames not yet handled
    eof,             \* the client side of the socket is closed
    mailbox,         \* server::TextMessage directives not yet handled
    sent,            \* messages the session sent to the ChannelServer, in order
    sock_out,        \* frames the session wrote to the client socket, in order
    rx,              \* frames the session has handled, in order
    events_left,     \* frames and directives the environment may still send
    horizon,         \* the time at which the run of the model ends
    peer,            \* get_remote: req.peer_addr()
    headers,         \* get_remote: req.headers()
    proxy_list,      \* get_remote: trusted_proxy_list
    remote,          \* get_remote: the result, once called
    langs,           \* the ranked language preference list
    elements,        \* get_preferred_language_element: the localized names
    element,         \* get_preferred_language_element: the result, once called
    iploc,           \* the geolocation database of the server
    sender           \* SenderData::from: the result, once called

session_vars == <<live, now, flags, wait, id, hb, expiry, channel, meta,
                  initial_connect, stream, eof, mailbox, sent, sock_out, rx,
                  events_left, horizon>>
remote_vars == <<peer, headers, proxy_list, remote>>
lang_vars == <<langs, elements, element, iploc, sender>>
request_vars == <<remote_vars, lang_vars>>
vars == <<live, now, flags, wait, id, hb, expiry, channel, meta,
          initial_connect, stream, eof, mailbox, sent, sock_out, rx,
          events_left, horizon, peer, headers,
          proxy_list, remote, langs, elements, element, iploc, sender>>

(***************************************************************************)
(* Text helpers.                                                           *)
(***************************************************************************)
Whitespace == {" "}

RECURSIVE TrimStart(_)
TrimStart(str) ==
    IF str = <<>> THEN <<>>
    ELSE IF Head(str) \in Whitespace THEN TrimStart(Tail(str))
    ELSE str

RECURSIVE TrimEnd(_)
TrimEnd(str) ==
    IF str = <<>> THEN <<>>
    ELSE IF str[Len(str)] \in Whitespace THEN TrimEnd(SubSeq(str, 1, Len(str) - 1))
    ELSE str

\* str::trim
Trim(str) == TrimEnd(TrimStart(str))

\* str::split: the pieces of str between the occurrences of sep
RECURSIVE Split(_, _)
Split(str, sep) ==
    IF \A i \in 1..Len(str) : str[i] /= sep THEN <<str>>
    ELSE LET i == CHOOSE j \in 1..Len(str) :
                      /\ str[j] = sep
                      /\ \A k \in 1..(j - 1) : str[k] /= sep
         IN <<SubSeq(str, 1, i - 1)>> \o Split(SubSeq(str, i + 1, Len(str)), sep)

\* Vec::reverse
RECURSIVE Reverse(_)
Reverse(seq) ==
    IF seq = <<>> THEN <<>> ELSE Append(Reverse(Tail(seq)), Head(seq))

\* The pieces joined with sep between them
RECURSIVE Join(_, _)
Join(pieces, sep) ==
    IF Len(pieces) = 1 THEN Head(pieces)
    ELSE Head(pieces) \o <<sep>> \o Join(Tail(pieces), sep)

(***************************************************************************)
(* Remote address resolution, channelserver/src/meta.rs.                   *)
(* Addresses are IPv4: an IpAddr is its four octets.                       *)
(***************************************************************************)
Ok(v) == [ok |-> TRUE, val |-> v]
Err(kind) == [ok |-> FALSE, err |-> kind]

Digits == <<"0", "1", "2", "3", "4", "5", "6", "7", "8", "9">>
IsDigit(c) == \E d \in 1..10 : Digits[d] = c
DigitValue(c) == (CHOOSE d \in 1..10 : Digits[d] = c) - 1

\* One decimal octet of an address: one to three digits, no leading zero,
\* at most 255; -1 when the text is not an octet
ParseOctet(str) ==
    IF /\ Len(str) \in 1..3
       /\ \A i \in 1..Len(str) : IsDigit(str[i])
       /\ (Len(str) > 1 => str[1] /= "0")
    THEN LET v == IF Len(str) = 1 THEN DigitValue(str[1])
                  ELSE IF Len(str) = 2
                       THEN 10 * DigitValue(str[1]) + DigitValue(str[2])
                       ELSE 100 * DigitValue(str[1]) + 10 * DigitValue(str[2])
                                + DigitValue(str[3])
         IN IF v <= 255 THEN v ELSE -1
    ELSE -1

\* str::parse::<IpAddr>
ParseIpAddr(str) ==
    LET parts == Split(str, ".") IN
    IF Len(parts) = 4 /\ \A i \in 1..4 : ParseOctet(parts[i]) >= 0
    THEN Ok([i \in 1..4 |-> ParseOctet(parts[i])])
    ELSE Err("AddrParseError")

FormatOctet(n) ==
    IF n < 10 THEN <<Digits[n + 1]>>
    ELSE IF n < 100 THEN <<Digits[(n \div 10) + 1], Digits[(n % 10) + 1]>>
    ELSE <<Digits[(n \div 100) + 1], Digits[((n \div 10) % 10) + 1],
           Digits[(n % 10) + 1]>>

\* IpAddr::to_string
FormatIpAddr(ip) ==
    Join([i \in 1..4 |-> FormatOctet(ip[i])], ".")

\* 2^n for the bits of an octet
Pow2(n) == [i \in 0..8 |-> CASE i = 0 -> 1 [] i = 1 -> 2 [] i = 2 -> 4
                             [] i = 3 -> 8 [] i = 4 -> 16 [] i = 5 -> 32
                             [] i = 6 -> 64 [] i = 7 -> 128 [] i = 8 -> 256][n]

\* IpNet::contains: the address agrees with the network on the prefix bits
IpNet(addr, prefix_len) == [addr |-> addr, prefix_len |-> prefix_len]
contains(net, ip) ==
    \A i \in 1..4 :
        LET over == net.prefix_len - 8 * (i - 1)
            bits == IF over <= 0 THEN 0 ELSE IF over >= 8 THEN 8 ELSE over
        IN ip[i] \div Pow2(8 - bits) = net.addr[i] \div Pow2(8 - bits)

\* is_trusted_proxy
is_trusted_proxy(list, host) ==
    LET test_addr == ParseIpAddr(host) IN
    IF ~test_addr.ok THEN Err("BadRemoteAddrError")
    ELSE Ok(\E i \in 1..Len(list) : contains(list[i], test_addr.val))

\* HeaderValue::to_str: only visible ASCII is text
NonAscii == "\\xE9"
to_str(header) ==
    IF \E i \in 1..Len(header) : header[i] = NonAscii
    THEN Err("ToStrError") ELSE Ok(header)

\* get_remote, the hops of the header in the order they are examined, as if
\* the list were not reversed
host_list_in_order(hstr) == Split(hstr, ",")

\* get_remote, the hops of the header in the order they are examined
host_list(hstr) == Reverse(Split(hstr, ","))

\* get_remote, the loop falling back to the hop examined last
RECURSIVE first_untrusted_or_last(_, _)
first_untrusted_or_last(hosts, list) ==
    IF hosts = <<>> THEN Err("BadRemoteAddrError")
    ELSE LET host == Trim(Head(hosts))
             trusted == is_trusted_proxy(list, host)
         IN IF ~trusted.ok THEN trusted
            ELSE IF ~trusted.val \/ Len(hosts) = 1 THEN Ok(host)
            ELSE first_untrusted_or_last(Tail(hosts), list)

\* get_remote, the loop returning the hop as it stands in the header
RECURSIVE first_untrusted_untrimmed(_, _)
first_untrusted_untrimmed(hosts, list) ==
    IF hosts = <<>> THEN Err("BadRemoteAddrError")
    ELSE LET host == Trim(Head(hosts))
             trusted == is_trusted_proxy(list, host)
         IN IF ~trusted.ok THEN trusted
            ELSE IF ~trusted.val THEN Ok(Head(hosts))
            ELSE first_untrusted_untrimmed(Tail(hosts), list)

\* get_remote, the loop over host_list
RECURSIVE first_untrusted(_, _)
first_untrusted(hosts, list) ==
    IF hosts = <<>> THEN Err("BadRemoteAddrError")
    ELSE LET host == Trim(Head(hosts))
             trusted == is_trusted_proxy(list, host)
         IN IF ~trusted.ok THEN trusted
            ELSE IF ~trusted.val THEN Ok(host)
            ELSE first_untrusted(Tail(hosts), list)

\* get_remote taking the header before it looks at the peer
get_remote_header_first(peer_addr, hdrs, list) ==
    LET header == hdrs["x-forwarded-for"] IN
    IF header /= None /\ to_str(Unwrap(header)).ok
          /\ first_untrusted(host_list(to_str(Unwrap(header)).val), list).ok
    THEN first_untrusted(host_list(to_str(Unwrap(header)).val), list)
    ELSE IF peer_addr = None THEN Err("BadRemoteAddrError")
    ELSE Ok(FormatIpAddr(Unwrap(peer_addr).ip))

\* get_remote
get_remote(peer_addr, hdrs, list) ==
    IF peer_addr = None THEN Err("BadRemoteAddrError")
    ELSE LET peer_ip == FormatIpAddr(Unwrap(peer_addr).ip)
             trusted == is_trusted_proxy(list, peer_ip)
         IN IF ~trusted.ok THEN trusted
            ELSE IF ~trusted.val THEN Ok(peer_ip)
            ELSE LET header == hdrs["x-forwarded-for"] IN
                 IF header = None THEN Err("BadRemoteAddrError")
                 ELSE LET hstr == to_str(Unwrap(header)) IN
                      IF ~hstr.ok THEN Err("BadRemoteAddrError")
                      ELSE first_untrusted(host_list(hstr.val), list)

\* The hops a forwarding header is made of
HopTexts ==
    { <<"1", ".", "2", ".", "3", ".", "4">>,
      <<" ", "2", ".", "3", ".", "4", ".", "5">>,
      <<" ", "1", "9", "2", ".", "1", "6", "8", ".", "0", ".", "1", "0", " ">>,
      <<"b", "a", "d">>,
      <<>>,
      <<NonAscii>> }

HeaderNames == {"x-forwarded-for", "accept-language", "user-agent"}
NoHeaders == [n \in HeaderNames |-> None]

\* No language list has been ranked, no name selected, no metadata built
NoLangs ==
    /\ langs = None
    /\ elements = <<>>
    /\ element = None
    /\ iploc = "empty"
    /\ sender = None

ForwardedHeaders ==
    { Some(Join(hops, ",")) :
        hops \in UNION { [1..n -> HopTexts] : n \in 1..MaxHops } }

\* req.peer_addr()
SocketAddr(ip, port) == [ip |-> ip, port |-> port]
PeerAddrs ==
    { None,
      Some(SocketAddr(<<1, 2, 3, 4>>, 0)),
      Some(SocketAddr(<<2, 3, 4, 5>>, 8080)),
      Some(SocketAddr(<<192, 168, 0, 4>>, 0)) }

\* trusted_proxy_list
ProxyLists ==
    { <<>>,
      <<IpNet(<<192, 168, 0, 0>>, 24)>>,
      <<IpNet(<<192, 168, 0, 0>>, 24), IpNet(<<2, 3, 4, 0>>, 25)>> }

InitRemote ==
    /\ live = {}
    /\ now = 0
    /\ flags = <<>>
    /\ wait = <<>>
    /\ id = <<>>
    /\ hb = <<>>
    /\ expiry = <<>>
    /\ channel = <<>>
    /\ meta = <<>>
    /\ initial_connect = <<>>
    /\ stream = <<>>
    /\ eof = <<>>
    /\ mailbox = <<>>
    /\ sent = <<>>
    /\ sock_out = <<>>
    /\ rx = <<>>
    /\ events_left = 0
    /\ horizon = 0
    /\ peer \in PeerAddrs
    /\ \E h \in ForwardedHeaders \cup {None} :
           headers = [NoHeaders EXCEPT !["x-forwarded-for"] = h]
    /\ proxy_list \in ProxyLists
    /\ remote = None
    /\ NoLangs

\* The connection metadata builder resolves the remote address
resolve_remote ==
    /\ remote = None
    /\ remote' = Some(get_remote(peer, headers, proxy_list))
    /\ UNCHANGED <<peer, headers, proxy_list>>
    /\ UNCHANGED lang_vars
    /\ UNCHANGED session_vars

NextRemote == resolve_remote

SpecRemote == InitRemote /\ [][NextRemote]_vars

(***************************************************************************)
(* Language preferences, channelserver/src/meta.rs.                        *)
(* A String is a sequence of code points; Strings are ordered as Rust      *)
(* orders them, by their UTF-8 bytes.                                      *)
(***************************************************************************)
Uppercase == <<"A", "B", "C", "D", "E", "F", "G", "H", "I", "J", "K", "L", "M",
               "N", "O", "P", "Q", "R", "S", "T", "U", "V", "W", "X", "Y", "Z">>
Lowercase == <<"a", "b", "c", "d", "e", "f", "g", "h", "i", "j", "k", "l", "m",
               "n", "o", "p", "q", "r", "s", "t", "u", "v", "w", "x", "y", "z">>

\* Code points outside ASCII: U+00E9, U+65E5 and U+1F644 take 2, 3 and 4
\* bytes in UTF-8
Wide == <<"U+00E9", "U+65E5", "U+1F644">>

\* The code points of the model, in ascending order of their encoding
Alphabet ==
    <<" ", "*", ",", "-", ".">> \o Digits \o <<";", "=">> \o Uppercase
        \o Lowercase \o Wide

CharCode(c) == CHOOSE i \in 1..Len(Alphabet) : Alphabet[i] = c

\* char::len_utf8
len_utf8(c) ==
    IF \E i \in 1..Len(Wide) : Wide[i] = c
    THEN 1 + CHOOSE i \in 1..Len(Wide) : Wide[i] = c
    ELSE 1

\* Ord for String: a < b
RECURSIVE StrLess(_, _)
StrLess(a, b) ==
    IF b = <<>> THEN FALSE
    ELSE IF a = <<>> THEN TRUE
    ELSE IF Head(a) = Head(b) THEN StrLess(Tail(a), Tail(b))
    ELSE CharCode(Head(a)) < CharCode(Head(b))

\* str::to_ascii_lowercase
to_ascii_lowercase(str) ==
    [i \in 1..Len(str) |->
        IF \E j \in 1..26 : Uppercase[j] = str[i]
        THEN Lowercase[CHOOSE j \in 1..26 : Uppercase[j] = str[i]]
        ELSE str[i]]

\* str::contains for a one-character pattern
str_contains(str, c) == \E i \in 1..Len(str) : str[i] = c

\* BTreeMap<String, String> is a function from its keys to their values
BTreeMapNew == <<>>

\* An insert that keeps the value of a key already present
insert_keep_first(map, k, v) ==
    [x \in (DOMAIN map) \cup {k} |-> IF x \in DOMAIN map THEN map[x] ELSE v]

\* BTreeMap::insert: a key already present gets the new value
insert(map, k, v) ==
    [x \in (DOMAIN map) \cup {k} |-> IF x = k THEN v ELSE map[x]]

\* The smallest key of a map that is not empty
first_key(map) ==
    CHOOSE x \in DOMAIN map : \A y \in (DOMAIN map) \ {x} : StrLess(x, y)

\* BTreeMap::values: the values in ascending order of their keys
RECURSIVE values(_)
values(map) ==
    IF DOMAIN map = {} THEN <<>>
    ELSE LET k == first_key(map)
         IN <<map[k]>> \o values([x \in (DOMAIN map) \ {k} |-> map[x]])

\* format!("q=1.{:02}", i)
synthetic_key(i) ==
    <<"q", "=", "1", ".">> \o (IF i < 10 THEN <<"0">> ELSE <<>>) \o FormatOctet(i)

\* preferred_languages, the loop over the entries of the header: the map
\* it leaves, i being the number of entries without ";" met so far
RECURSIVE lang_tree(_, _, _)
lang_tree(entries, tree, i) ==
    IF entries = <<>> THEN tree
    ELSE LET l == Head(entries) IN
         IF str_contains(l, ";")
         THEN LET weight == Split(l, ";")
                  lang == to_ascii_lowercase(weight[1])
                  pref == to_ascii_lowercase(weight[2])
              IN lang_tree(Tail(entries), insert(tree, Trim(pref), Trim(lang)), i)
         ELSE lang_tree(Tail(entries),
                        insert(tree, synthetic_key(i), to_ascii_lowercase(l)),
                        i + 1)

default_lang == <<"e", "n">>

\* preferred_languages
preferred_languages(alheader) ==
    Append(Reverse(values(lang_tree(Split(alheader, ","), BTreeMapNew, 0))),
           default_lang)

\* SenderData::from, the language list of a request
request_langs(hdrs) ==
    LET l == hdrs["accept-language"] IN
    IF l = None THEN <<<<"*">>>>
    ELSE LET lang == to_str(Unwrap(l))
         IN preferred_languages(IF lang.ok THEN lang.val ELSE <<"*">>)

\* The entries an Accept-Language header is made of
LangEntries ==
    { <<"e", "n", "-", "U", "S">>,
      <<"e", "s", ";", "q", "=", "0", ".", "1">>,
      <<"e", "n", ";", "q", "=", "0", ".", "5">>,
      <<"*", ";", "q", "=", "0", ".", "2">>,
      <<"f", "r">>,
      <<"d", "e", ";", "q", "=", "1", ".", "0", "0", "0">>,
      <<" ", "i", "t", ";", " ", "Q", "=", "0", ".", "5">> }

AcceptLanguageHeaders ==
    { Some(Join(entries, ",")) :
        entries \in UNION { [1..n -> LangEntries] : n \in 1..MaxEntries } }
    \cup { Some(<<NonAscii>>) }

\* No session exists
NoSessions ==
    /\ live = {}
    /\ now = 0
    /\ flags = <<>>
    /\ wait = <<>>
    /\ id = <<>>
    /\ hb = <<>>
    /\ expiry = <<>>
    /\ channel = <<>>
    /\ meta = <<>>
    /\ initial_connect = <<>>
    /\ stream = <<>>
    /\ eof = <<>>
    /\ mailbox = <<>>
    /\ sent = <<>>
    /\ sock_out = <<>>
    /\ rx = <<>>
    /\ events_left = 0
    /\ horizon = 0

InitLang ==
    /\ NoSessions
    /\ peer = None
    /\ \E l \in AcceptLanguageHeaders \cup {None} :
           headers = [NoHeaders EXCEPT !["accept-language"] = l]
    /\ proxy_list = <<>>
    /\ remote = None
    /\ NoLangs

\* The connection metadata builder ranks the languages of the request
rank_languages ==
    /\ langs = None
    /\ langs' = Some(request_langs(headers))
    /\ UNCHANGED <<elements, element, iploc, sender>>
    /\ UNCHANGED remote_vars
    /\ UNCHANGED session_vars

NextLang == rank_languages

SpecLang == InitLang /\ [][NextLang]_vars

\* A panic unwinds the call
Panic == Err("panic")

\* The number of bytes of the UTF-8 encoding of str
RECURSIVE ByteLen(_)
ByteLen(str) ==
    IF str = <<>> THEN 0 ELSE len_utf8(Head(str)) + ByteLen(Tail(str))

\* str::is_char_boundary
is_char_boundary(str, index) ==
    \E k \in 0..Len(str) : ByteLen(SubSeq(str, 1, k)) = index

\* str::split_at: mid is a byte offset; it panics when mid is past the end
\* of str or inside the encoding of a code point
split_at(str, mid) ==
    IF is_char_boundary(str, mid)
    THEN LET k == CHOOSE j \in 0..Len(str) : ByteLen(SubSeq(str, 1, j)) = mid
         IN Ok(<<SubSeq(str, 1, k), SubSeq(str, k + 1, Len(str))>>)
    ELSE Panic

\* get_preferred_language_element: Ok of the Option it returns, or Panic
RECURSIVE get_preferred_language_element(_, _)
get_preferred_language_element(ls, elems) ==
    IF ls = <<>> THEN Ok(None)
    ELSE LET lang == Head(ls) IN
         IF lang = <<"*">>
         THEN Ok(IF DOMAIN elems = {} THEN None
                 ELSE Some(elems[first_key(elems)]))
         ELSE IF lang \in DOMAIN elems THEN Ok(Some(elems[lang]))
         ELSE IF str_contains(lang, "-")
         THEN LET parts == split_at(lang, 2) IN
              IF ~parts.ok THEN Panic
              ELSE IF parts.val[1] \in DOMAIN elems
              THEN Ok(Some(elems[parts.val[1]]))
              ELSE get_preferred_language_element(Tail(ls), elems)
         ELSE get_preferred_language_element(Tail(ls), elems)

\* The tags a preference list is made of
PrefTags ==
    { <<"*">>,
      <<"e", "n">>,
      <<"e", "n", "-", "u", "s">>,
      <<"f", "u">>,
      <<"-">>,
      <<"U+00E9", "-", "x">>,
      <<"U+65E5", "-", "x">>,
      <<"U+1F644">> }

PrefLists == UNION { [1..n -> PrefTags] : n \in 0..MaxPrefs }

\* Localized names, by language
California == <<"C", "a", "l", "i", "f", "o", "r", "n", "i", "a">>
Kalifornien == <<"K", "a", "l", "i", "f", "o", "r", "n", "i", "e", "n">>
Californie == <<"C", "a", "l", "i", "f", "o", "r", "n", "i", "e">>
ElementMaps ==
    { BTreeMapNew,
      insert(insert(insert(BTreeMapNew, <<"e", "n">>, California),
                    <<"d", "e">>, Kalifornien),
             <<"f", "r">>, Californie),
      insert(BTreeMapNew, <<"f", "r">>, Californie),
      insert(insert(BTreeMapNew, <<"U+00E9">>, Californie),
             <<"U+00E9", "-">>, California) }

InitSelect ==
    /\ NoSessions
    /\ peer = None
    /\ headers = NoHeaders
    /\ proxy_list = <<>>
    /\ remote = None
    /\ langs \in { Some(ls) : ls \in PrefLists }
    /\ elements \in ElementMaps
    /\ element = None
    /\ iploc = "empty"
    /\ sender = None

\* get_location selects one localized name
select_element ==
    /\ element = None
    /\ element' = Some(get_preferred_language_element(Unwrap(langs), elements))
    /\ UNCHANGED <<langs, elements, iploc, sender>>
    /\ UNCHANGED remote_vars
    /\ UNCHANGED session_vars

NextSelect == select_element

SpecSelect == InitSelect /\ [][NextSelect]_vars

(***************************************************************************)
(* The session actor, channelserver/src/session.rs.                        *)
(***************************************************************************)
Sessions == {"s1", "s2"}
\* server::SessionId the registry assigns to a session it accepts
SessionIdOf(s) == IF s = "s1" THEN 1 ELSE 2

\* SenderData values a session may have been created with
NoSenderData ==
    [ua |-> None, remote |-> None, city |-> None, region |-> None,
     country |-> None]
FullSenderData ==
    [ua |-> Some(<<"U","A">>), remote |-> Some(<<"1",".","2",".","3",".","4">>),
     city |-> Some(<<"S","F">>), region |-> Some(<<"C","A">>),
     country |-> Some(<<"U","S">>)]

\* The connections a session is created for
Requests ==
    { [channel |-> "chanA", meta |-> NoSenderData, initial_connect |-> TRUE],
      [channel |-> "chanB", meta |-> FullSenderData, initial_connect |-> FALSE] }

Payloads == { <<"h","i">>, <<" ","y","o"," ">> }

\* ws::Message
Frame(kind, data) == [kind |-> kind, data |-> data]
ClientFrames ==
    { Frame("Ping", <<>>), Frame("Pong", <<>>), Frame("Binary", <<>>),
      Frame("Close", <<>>) } \cup { Frame("Text", p) : p \in Payloads }

\* The close frame written by ctx.close(Some(ws::CloseCode::Normal.into()))
CloseNormal == Frame("Close", <<"N", "o", "r", "m", "a", "l">>)

\* server::TextMessage(MessageType, String)
Directives ==
    { [kind |-> "Terminate", text |-> <<>>],
      [kind |-> "Text", text |-> <<"m","s","g">>] }

\* server::Connect
Connect(s) ==
    [type |-> "Connect", addr |-> s, channel |-> channel[s],
     remote |-> meta[s].remote, initial_connect |-> initial_connect[s]]

\* server::Disconnect
Disconnect(s) ==
    [type |-> "Disconnect", channel |-> channel[s], id |-> id[s],
     reason |-> "None"]

\* A ClientMessage carrying SenderData::default() for the metadata
ClientMessage_default_sender(s, text) ==
    [type |-> "ClientMessage", id |-> id[s], message_type |-> "Text",
     message |-> Trim(text), channel |-> channel[s], sender |-> NoSenderData]

\* A ClientMessage carrying the payload as it arrived
ClientMessage_untrimmed(s, text) ==
    [type |-> "ClientMessage", id |-> id[s], message_type |-> "Text",
     message |-> text, channel |-> channel[s], sender |-> meta[s]]

\* server::ClientMessage
ClientMessage(s, text) ==
    [type |-> "ClientMessage", id |-> id[s], message_type |-> "Text",
     message |-> Trim(text), channel |-> channel[s], sender |-> meta[s]]

\* A stop that skips the stopping callback (ActorContext::terminate)
ctx_terminate(f) == IF f = "Running" THEN "Stopped" ELSE f

\* ActorContext::stop: a running context starts stopping
ctx_stop(f) == IF f = "Running" THEN "Stopping" ELSE f

\* A context that does not wait for the future given to ctx.wait
waiting_spawned(s) == flags[s] \in {"Stopping", "Stopped"}

\* The context handles no mailbox message and polls no stream or timer
\* while a wait future is pending or once it is stopping or stopped.
waiting(s) == wait[s] \/ flags[s] \in {"Stopping", "Stopped"}

\* The lifecycle state of the session
Lifecycle(s) ==
    IF flags[s] = "Init" \/ (flags[s] = "Running" /\ wait[s]) THEN "Starting"
    ELSE IF flags[s] = "Running" THEN "Active"
    ELSE flags[s]

InitSessions(S, reqs, nevents, endtime) ==
    /\ live = S
    /\ now = 0
    /\ flags = [s \in S |-> "Init"]
    /\ wait = [s \in S |-> FALSE]
    /\ id = [s \in S |-> 0]
    /\ hb = [s \in S |-> 0]
    /\ expiry = [s \in S |-> connection_lifespan]
    /\ \E req \in reqs :
          /\ channel = [s \in S |-> req[s].channel]
          /\ meta = [s \in S |-> req[s].meta]
          /\ initial_connect = [s \in S |-> req[s].initial_connect]
    /\ stream = [s \in S |-> <<>>]
    /\ eof = [s \in S |-> FALSE]
    /\ mailbox = [s \in S |-> <<>>]
    /\ sent = [s \in S |-> <<>>]
    /\ sock_out = [s \in S |-> <<>>]
    /\ rx = [s \in S |-> <<>>]
    /\ events_left = nevents
    /\ horizon = endtime

\* Actor::started
started(s) ==
    /\ flags[s] = "Init"
    /\ flags' = [flags EXCEPT ![s] = "Running"]
    /\ sent' = [sent EXCEPT ![s] = Append(@, Connect(s))]
    /\ wait' = [wait EXCEPT ![s] = TRUE]
    /\ UNCHANGED <<live, now, id, hb, expiry, channel, meta, initial_connect,
                   stream, eof, mailbox, sock_out, rx, events_left, horizon>>
    /\ UNCHANGED request_vars

\* The closure without the stop of a rejected registration
started_then_no_stop(s, res) ==
    /\ flags[s] = "Running"
    /\ wait[s]
    /\ wait' = [wait EXCEPT ![s] = FALSE]
    /\ IF res.ok
       THEN /\ id' = [id EXCEPT ![s] = res.session_id]
            /\ flags' = flags
       ELSE /\ flags' = [flags EXCEPT ![s] = ctx_stop(@)]
            /\ id' = id
    /\ UNCHANGED <<live, now, hb, expiry, channel, meta, initial_connect,
                   stream, eof, mailbox, sent, sock_out, rx, events_left, horizon>>
    /\ UNCHANGED request_vars

\* The closure retrying the registration when the request failed
started_then_retry(s, res) ==
    /\ flags[s] = "Running"
    /\ wait[s]
    /\ IF res.ok
       THEN /\ wait' = [wait EXCEPT ![s] = FALSE]
            /\ sent' = sent
            /\ IF res.session_id = 0
               THEN /\ flags' = [flags EXCEPT ![s] = ctx_stop(@)]
                    /\ id' = id
               ELSE /\ id' = [id EXCEPT ![s] = res.session_id]
                    /\ flags' = flags
       ELSE /\ sent' = [sent EXCEPT ![s] = Append(@, Connect(s))]
            /\ UNCHANGED <<wait, flags, id>>
    /\ UNCHANGED <<live, now, hb, expiry, channel, meta, initial_connect,
                   stream, eof, mailbox, sock_out, rx, events_left, horizon>>
    /\ UNCHANGED request_vars

\* Actor::started, the closure given to then(): res is Ok(session_id) or Err
started_then(s, res) ==
    /\ flags[s] = "Running"
    /\ wait[s]
    /\ wait' = [wait EXCEPT ![s] = FALSE]
    /\ IF res.ok
       THEN IF res.session_id = 0
            THEN /\ flags' = [flags EXCEPT ![s] = ctx_stop(@)]
                 /\ id' = id
            ELSE /\ id' = [id EXCEPT ![s] = res.session_id]
                 /\ flags' = flags
       ELSE /\ flags' = [flags EXCEPT ![s] = ctx_stop(@)]
            /\ id' = id
    /\ UNCHANGED <<live, now, hb, expiry, channel, meta, initial_connect,
                   stream, eof, mailbox, sent, sock_out, rx, events_left, horizon>>
    /\ UNCHANGED request_vars

\* A stop flag shared by all the sessions
stopping_shared(s) ==
    /\ flags[s] = "Stopping"
    /\ sent' = [sent EXCEPT ![s] = Append(@, Disconnect(s))]
    /\ flags' = [t \in live |-> "Stopped"]
    /\ UNCHANGED <<live, now, wait, id, hb, expiry, channel, meta,
                   initial_connect, stream, eof, mailbox, sock_out, rx,
                   events_left, horizon>>
    /\ UNCHANGED request_vars

\* Actor::stopping telling the registry only of a registered session
stopping_registered_only(s) ==
    /\ flags[s] = "Stopping"
    /\ sent' = [sent EXCEPT ![s] =
                    IF id[s] = 0 THEN @ ELSE Append(@, Disconnect(s))]
    /\ flags' = [flags EXCEPT ![s] = "Stopped"]
    /\ UNCHANGED <<live, now, wait, id, hb, expiry, channel, meta,
                   initial_connect, stream, eof, mailbox, sock_out, rx,
                   events_left, horizon>>
    /\ UNCHANGED request_vars

\* Actor::stopping
stopping(s) ==
    /\ flags[s] = "Stopping"
    /\ sent' = [sent EXCEPT ![s] = Append(@, Disconnect(s))]
    /\ flags' = [flags EXCEPT ![s] = "Stopped"]
    /\ UNCHANGED <<live, now, wait, id, hb, expiry, channel, meta,
                   initial_connect, stream, eof, mailbox, sock_out, rx,
                   events_left, horizon>>
    /\ UNCHANGED request_vars

\* Handler<server::TextMessage>::handle
handle_text_message(s) ==
    /\ ~waiting(s)
    /\ flags[s] = "Running"
    /\ mailbox[s] /= <<>>
    /\ LET msg == Head(mailbox[s]) IN
       /\ mailbox' = [mailbox EXCEPT ![s] = Tail(@)]
       /\ IF msg.kind = "Terminate"
          THEN sock_out' = [sock_out EXCEPT ![s] = Append(@, CloseNormal)]
          ELSE sock_out' = [sock_out EXCEPT ![s] =
                              Append(@, Frame("Text", msg.text))]
    /\ UNCHANGED <<live, now, flags, wait, id, hb, expiry, channel, meta,
                   initial_connect, stream, eof, sent, rx, events_left, horizon>>
    /\ UNCHANGED request_vars

\* StreamHandler::handle with a Pong arm that leaves the heartbeat alone
handle_pong_ignored(s) ==
    /\ ~waiting(s)
    /\ flags[s] = "Running"
    /\ stream[s] /= <<>>
    /\ LET msg == Head(stream[s]) IN
       /\ stream' = [stream EXCEPT ![s] = Tail(@)]
       /\ rx' = [rx EXCEPT ![s] = Append(@, msg)]
       /\ CASE msg.kind = "Ping" ->
                 /\ hb' = [hb EXCEPT ![s] = now]
                 /\ sock_out' = [sock_out EXCEPT ![s] =
                                     Append(@, Frame("Pong", msg.data))]
                 /\ UNCHANGED <<sent, flags>>
            [] msg.kind = "Pong" ->
                 UNCHANGED <<hb, sock_out, sent, flags>>
            [] msg.kind = "Text" ->
                 /\ hb' = [hb EXCEPT ![s] = now]
                 /\ sent' = [sent EXCEPT ![s] =
                                 Append(@, ClientMessage(s, msg.data))]
                 /\ UNCHANGED <<sock_out, flags>>
            [] msg.kind = "Binary" ->
                 UNCHANGED <<hb, sock_out, sent, flags>>
            [] msg.kind = "Close" ->
                 /\ sent' = [sent EXCEPT ![s] = Append(@, Disconnect(s))]
                 /\ flags' = [flags EXCEPT ![s] = ctx_stop(@)]
                 /\ UNCHANGED <<hb, sock_out>>
    /\ UNCHANGED <<live, now, wait, id, expiry, channel, meta,
                   initial_connect, eof, mailbox, events_left, horizon>>
    /\ UNCHANGED request_vars

\* StreamHandler::handle
handle(s) ==
    /\ ~waiting(s)
    /\ flags[s] = "Running"
    /\ stream[s] /= <<>>
    /\ LET msg == Head(stream[s]) IN
       /\ stream' = [stream EXCEPT ![s] = Tail(@)]
       /\ rx' = [rx EXCEPT ![s] = Append(@, msg)]
       /\ CASE msg.kind = "Ping" ->
                 /\ hb' = [hb EXCEPT ![s] = now]
                 /\ sock_out' = [sock_out EXCEPT ![s] =
                                     Append(@, Frame("Pong", msg.data))]
                 /\ UNCHANGED <<sent, flags>>
            [] msg.kind = "Pong" ->
                 /\ hb' = [hb EXCEPT ![s] = now]
                 /\ UNCHANGED <<sock_out, sent, flags>>
            [] msg.kind = "Text" ->
                 /\ hb' = [hb EXCEPT ![s] = now]
                 /\ sent' = [sent EXCEPT ![s] =
                                 Append(@, ClientMessage(s, msg.data))]
                 /\ UNCHANGED <<sock_out, flags>>
            [] msg.kind = "Binary" ->
                 UNCHANGED <<hb, sock_out, sent, flags>>
            [] msg.kind = "Close" ->
                 /\ sent' = [sent EXCEPT ![s] = Append(@, Disconnect(s))]
                 /\ flags' = [flags EXCEPT ![s] = ctx_stop(@)]
                 /\ UNCHANGED <<hb, sock_out>>
    /\ UNCHANGED <<live, now, wait, id, expiry, channel, meta,
                   initial_connect, eof, mailbox, events_left, horizon>>
    /\ UNCHANGED request_vars

\* StreamHandler::finished (not overridden): the end of the frame stream
\* stops the context
finished(s) ==
    /\ ~waiting(s)
    /\ flags[s] = "Running"
    /\ stream[s] = <<>>
    /\ eof[s]
    /\ flags' = [flags EXCEPT ![s] = ctx_stop(@)]
    /\ UNCHANGED <<live, now, wait, id, hb, expiry, channel, meta,
                   initial_connect, stream, eof, mailbox, sent, sock_out, rx,
                   events_left, horizon>>
    /\ UNCHANGED request_vars

\* The heartbeat supervisor started by self.hb(ctx): one tick of its
\* interval timer.  Either threshold exceeded stops the session.
timed_out(s) == now - hb[s] > client_timeout \/ now > expiry[s]

hb_tick(s) ==
    /\ ~waiting(s)
    /\ flags[s] = "Running"
    /\ timed_out(s)
    /\ flags' = [flags EXCEPT ![s] = ctx_stop(@)]
    /\ UNCHANGED <<live, now, wait, id, hb, expiry, channel, meta,
                   initial_connect, stream, eof, mailbox, sent, sock_out, rx,
                   events_left, horizon>>
    /\ UNCHANGED request_vars

(***************************************************************************)
(* The environment of a session: the client, the registry and the clock.   *)
(***************************************************************************)
\* The socket is gone once the actor has stopped
client_send(s, f) ==
    /\ flags[s] /= "Stopped"
    /\ ~eof[s]
    /\ events_left > 0
    /\ events_left' = events_left - 1
    /\ stream' = [stream EXCEPT ![s] = Append(@, f)]
    /\ UNCHANGED <<live, now, flags, wait, id, hb, expiry, channel, meta,
                   initial_connect, eof, mailbox, sent, sock_out, rx, horizon>>
    /\ UNCHANGED request_vars

client_hangup(s) ==
    /\ flags[s] /= "Stopped"
    /\ ~eof[s]
    /\ eof' = [eof EXCEPT ![s] = TRUE]
    /\ UNCHANGED <<live, now, flags, wait, id, hb, expiry, channel, meta,
                   initial_connect, stream, mailbox, sent, sock_out, rx,
                   events_left, horizon>>
    /\ UNCHANGED request_vars

\* The registry holds the session's address from the Connect message on
registry_push(s, d) ==
    /\ flags[s] \in {"Running", "Stopping"}
    /\ events_left > 0
    /\ events_left' = events_left - 1
    /\ mailbox' = [mailbox EXCEPT ![s] = Append(@, d)]
    /\ UNCHANGED <<live, now, flags, wait, id, hb, expiry, channel, meta,
                   initial_connect, stream, eof, sent, sock_out, rx, horizon>>
    /\ UNCHANGED request_vars

\* Time is followed for as long as a session lives
clock_tick ==
    /\ \E s \in live : flags[s] /= "Stopped"
    /\ now < horizon
    /\ now' = now + 1
    /\ UNCHANGED <<live, flags, wait, id, hb, expiry, channel, meta,
                   initial_connect, stream, eof, mailbox, sent, sock_out, rx,
                   events_left, horizon>>
    /\ UNCHANGED request_vars

\* The answers to Connect: accepted, rejected (id 0), or a failed request
ConnectResults(s) ==
    { [ok |-> TRUE, session_id |-> SessionIdOf(s)],
      [ok |-> TRUE, session_id |-> 0],
      [ok |-> FALSE, session_id |-> 0] }

Init ==
    /\ InitSessions({"s1"}, [{"s1"} -> Requests], MaxEvents,
                    connection_lifespan + 1)
    /\ peer = None
    /\ headers = NoHeaders
    /\ proxy_list = <<>>
    /\ remote = None
    /\ NoLangs

Next ==
    \/ \E s \in live : started(s)
    \/ \E s \in live : \E res \in ConnectResults(s) : started_then(s, res)
    \/ \E s \in live : stopping(s)
    \/ \E s \in live : handle_text_message(s)
    \/ \E s \in live : handle(s)
    \/ \E s \in live : finished(s)
    \/ \E s \in live : hb_tick(s)
    \/ \E s \in live : \E f \in ClientFrames : client_send(s, f)
    \/ \E s \in live : client_hangup(s)
    \/ \E s \in live : \E d \in Directives : registry_push(s, d)
    \/ clock_tick

Spec == Init /\ [][Next]_vars

MultiRequests ==
    [s \in Sessions |->
        IF s = "s1"
        THEN [channel |-> "chanA", meta |-> NoSenderData, initial_connect |-> TRUE]
        ELSE [channel |-> "chanA", meta |-> FullSenderData, initial_connect |-> FALSE]]

\* Two sessions running concurrently against the shared registry
InitMulti ==
    /\ InitSessions(Sessions, {MultiRequests}, MultiEvents, client_timeout + 1)
    /\ peer = None
    /\ headers = NoHeaders
    /\ proxy_list = <<>>
    /\ remote = None
    /\ NoLangs

SpecMulti == InitMulti /\ [][Next]_vars

(***************************************************************************)
(* The connection metadata builder, channelserver/src/meta.rs.             *)
(***************************************************************************)
\* get_ua
get_ua(hdrs) ==
    LET header == hdrs["user-agent"] IN
    IF header = None THEN None
    ELSE LET s == to_str(Unwrap(header))
             ua == IF s.ok THEN s.val ELSE <<>>
         IN IF ua = <<>> THEN None ELSE Some(ua)

\* str::find for a one-character pattern: the offset of its first occurrence
find(str, c) ==
    IF str_contains(str, c)
    THEN Some((CHOOSE i \in 1..Len(str) :
                  /\ str[i] = c
                  /\ \A k \in 1..(i - 1) : str[k] /= c) - 1)
    ELSE None

\* get_location, the remote without what follows its first ":"
strip_port(r) ==
    LET at == find(r, ":")
        end == IF at = None THEN Len(r) ELSE Unwrap(at)
    IN SubSeq(r, 1, end)

\* The digits of a group of an IPv6 address
HexDigits == Digits \o <<"a", "b", "c", "d", "e", "f">>
IsHexDigit(c) == \E i \in 1..16 : HexDigits[i] = c
HexValue(c) == (CHOOSE i \in 1..16 : HexDigits[i] = c) - 1

\* The value of a group of one to four hex digits, -1 when it is none
RECURSIVE HexNumber(_)
HexNumber(str) ==
    IF str = <<>> THEN 0
    ELSE 16 * HexNumber(SubSeq(str, 1, Len(str) - 1)) + HexValue(str[Len(str)])
ParseGroup(str) ==
    LET low == to_ascii_lowercase(str) IN
    IF Len(low) \in 1..4 /\ \A i \in 1..Len(low) : IsHexDigit(low[i])
    THEN HexNumber(low) ELSE -1

\* The groups of a part of an IPv6 address, the part being on one side of "::"
Groups(part) == IF part = <<>> THEN <<>> ELSE Split(part, ":")

\* str::parse::<Ipv6Addr>: eight groups, or fewer around one "::"; an
\* address is its eight groups
ParseIpv6Addr(str) ==
    LET gaps == { i \in 1..(Len(str) - 1) : str[i] = ":" /\ str[i + 1] = ":" }
    IN IF gaps = {}
       THEN LET parts == Split(str, ":") IN
            IF Len(parts) = 8 /\ \A i \in 1..8 : ParseGroup(parts[i]) >= 0
            THEN Ok([i \in 1..8 |-> ParseGroup(parts[i])])
            ELSE Err("AddrParseError")
       ELSE IF Cardinality(gaps) = 1
       THEN LET at == CHOOSE i \in gaps : TRUE
                left == Groups(SubSeq(str, 1, at - 1))
                right == Groups(SubSeq(str, at + 2, Len(str)))
            IN IF /\ Len(left) + Len(right) <= 7
                  /\ \A i \in 1..Len(left) : ParseGroup(left[i]) >= 0
                  /\ \A i \in 1..Len(right) : ParseGroup(right[i]) >= 0
               THEN Ok([i \in 1..Len(left) |-> ParseGroup(left[i])]
                       \o [i \in 1..(8 - Len(left) - Len(right)) |-> 0]
                       \o [i \in 1..Len(right) |-> ParseGroup(right[i])])
               ELSE Err("AddrParseError")
       ELSE Err("AddrParseError")

\* get_location, remote.parse(): an IpAddr is an IPv4 or an IPv6 address
parse_loc(str) ==
    IF ParseIpAddr(str).ok THEN ParseIpAddr(str) ELSE ParseIpv6Addr(str)

\* The records of a geolocation database: maxminddb::geoip2::City
Sacramento == <<"S", "a", "c", "r", "a", "m", "e", "n", "t", "o">>
UnitedStates == <<"U", "n", "i", "t", "e", "d", " ", "S", "t", "a", "t", "e", "s">>
Named(names) == [names |-> names]
FullCity ==
    [city |-> Some(Named(Some(insert(BTreeMapNew, <<"e", "n">>, Sacramento)))),
     country |->
         Some(Named(Some(insert(BTreeMapNew, <<"e", "n">>, UnitedStates)))),
     subdivisions |->
         Some(<<Named(Some(insert(insert(BTreeMapNew, <<"e", "n">>, California),
                                  <<"d", "e">>, Kalifornien)))>>)]
SparseCity ==
    [city |-> None, country |-> Some(Named(None)), subdivisions |-> Some(<<>>)]

\* The addresses a database that is not empty has a record for
Located == { <<1, 2, 3, 4>>, <<2, 3, 4, 5>>, <<8193, 3512, 0, 0, 0, 0, 0, 1>> }
GeoDbs == { "empty", "full", "sparse" }

\* maxminddb::Reader::lookup::<City>
lookup(db, loc) ==
    IF db = "empty" \/ loc \notin Located THEN Err("AddressNotFoundError")
    ELSE Ok(IF db = "full" THEN FullCity ELSE SparseCity)

\* get_location, the fields it sets from a record of the database
locate(snd, ls, rec) ==
    LET city_names == IF rec.city = None THEN None ELSE Unwrap(rec.city).names
        country_names ==
            IF rec.country = None THEN None ELSE Unwrap(rec.country).names
        region_names ==
            IF rec.subdivisions = None \/ Unwrap(rec.subdivisions) = <<>>
            THEN None ELSE Unwrap(rec.subdivisions)[1].names
        city == IF city_names = None THEN Ok(snd.city)
                ELSE get_preferred_language_element(ls, Unwrap(city_names))
        country == IF country_names = None THEN Ok(snd.country)
                   ELSE get_preferred_language_element(ls, Unwrap(country_names))
        region == IF region_names = None THEN Ok(snd.region)
                  ELSE get_preferred_language_element(ls, Unwrap(region_names))
    IN IF ~city.ok \/ ~country.ok \/ ~region.ok THEN Panic
       ELSE Ok([snd EXCEPT !.city = city.val, !.country = country.val,
                           !.region = region.val])

\* get_location: Ok of the sender it leaves, or Panic
get_location(snd, ls, db) ==
    IF snd.remote = None THEN Ok(snd)
    ELSE LET loc == parse_loc(strip_port(Unwrap(snd.remote))) IN
         IF ~loc.ok THEN Ok(snd)
         ELSE LET city == lookup(db, loc.val) IN
              IF ~city.ok THEN Ok(snd) ELSE locate(snd, ls, city.val)

\* SenderData::from: Ok of the SenderData it returns, or Panic
from(peer_addr, hdrs, list, db) ==
    LET ls == request_langs(hdrs)
        addr == get_remote(peer_addr, hdrs, list)
        snd == [NoSenderData EXCEPT
                    !.ua = get_ua(hdrs),
                    !.remote = IF addr.ok THEN Some(addr.val) ELSE None]
    IN get_location(snd, ls, db)

\* The user agents of a request
Mozilla == <<"M", "o", "z", "i", "l", "l", "a">>
UserAgentHeaders == { None, Some(<<>>), Some(Mozilla), Some(<<NonAscii>>) }

\* The requests the metadata is built for: headers of one entry, one hop
MetaLanguageHeaders ==
    { Some(entry) : entry \in LangEntries }
        \cup { None, Some(<<"-">>), Some(<<NonAscii>>) }
MetaForwardedHeaders == { Some(hop) : hop \in HopTexts } \cup { None }

InitMeta ==
    /\ NoSessions
    /\ peer \in PeerAddrs
    /\ \E l \in MetaLanguageHeaders, ua \in UserAgentHeaders,
          f \in MetaForwardedHeaders :
           headers = [n \in HeaderNames |->
                         CASE n = "accept-language" -> l
                           [] n = "user-agent" -> ua
                           [] n = "x-forwarded-for" -> f]
    /\ proxy_list \in ProxyLists
    /\ remote = None
    /\ langs = None
    /\ elements = <<>>
    /\ element = None
    /\ iploc \in GeoDbs
    /\ sender = None

\* The websocket route builds the metadata of a connection
build_sender ==
    /\ sender = None
    /\ sender' = Some(from(peer, headers, proxy_list, iploc))
    /\ UNCHANGED <<langs, elements, element, iploc>>
    /\ UNCHANGED remote_vars
    /\ UNCHANGED session_vars

NextMeta == build_sender

SpecMeta == InitMeta /\ [][NextMeta]_vars

\* The remote addresses get_location is given
RemoteTexts ==
    { <<"1", ".", "2", ".", "3", ".", "4">>,
      <<"1", ".", "2", ".", "3", ".", "4", ":", "8", "0", "8", "0">>,
      <<"2", ".", "3", ".", "4", ".", "5", ":", "0">>,
      <<"1", "9", "2", ".", "1", "6", "8", ".", "1", ".", "1">>,
      <<"2", "0", "0", "1", ":", "d", "b", "8", ":", ":", "1">>,
      <<":", ":", "1">>,
      <<"b", "a", "d">>,
      <<>> }

\* The language lists get_location is given
LocateLangs ==
    { <<<<"e", "n">>>>, <<<<"d", "e">>, <<"e", "n">>>>, <<<<"f", "u">>>>, <<<<"*">>>> }

InitLocate ==
    /\ NoSessions
    /\ peer = None
    /\ headers = NoHeaders
    /\ proxy_list = <<>>
    /\ remote \in { Some(Ok(r)) : r \in RemoteTexts }
    /\ langs \in { Some(ls) : ls \in LocateLangs }
    /\ elements = <<>>
    /\ element = None
    /\ iploc \in GeoDbs
    /\ sender = None

\* Geo enrichment of a sender whose remote address is resolved
locate_sender ==
    /\ sender = None
    /\ sender' = Some(get_location(
                          [NoSenderData EXCEPT !.remote = Some(Unwrap(remote).val)],
                          Unwrap(langs), iploc))
    /\ UNCHANGED <<langs, elements, element, iploc>>
    /\ UNCHANGED remote_vars
    /\ UNCHANGED session_vars

NextLocate == locate_sender

SpecLocate == InitLocate /\ [][NextLocate]_vars

(***************************************************************************)
(* Properties of the session actor.                                        *)
(***************************************************************************)
\* The number of messages of a type the session has sent to the registry
NumSent(s, type) ==
    Cardinality({ i \in 1..Len(sent[s]) : sent[s][i].type = type })

\* The registry rejected the registration (id 0) or the request failed
RegistrationFailed(s) == flags[s] /= "Init" /\ ~wait[s] /\ id[s] = 0

\* C1: until the response to the session's Connect request has arrived the
\* session has handled no inbound frame and has sent no ClientMessage; the
\* frames that arrived are still waiting in the stream.
C1_NoFrameBeforeRegistration ==
    \A s \in live :
        Lifecycle(s) = "Starting" =>
            /\ rx[s] = <<>>
            /\ NumSent(s, "ClientMessage") = 0

C1_Witness ==
    \E s \in live :
        /\ wait[s]
        /\ \E i \in 1..Len(stream[s]) : stream[s][i].kind = "Text"

\* C2: a session sends at most one Disconnect notice over its lifetime, and
\* a session that has left Active and is stopped has sent exactly one.
C2_ExactlyOneDisconnect ==
    \A s \in live :
        /\ NumSent(s, "Disconnect") <= 1
        /\ (flags[s] = "Stopped" /\ id[s] /= 0) => NumSent(s, "Disconnect") = 1

\* C3: a session whose registration was rejected (id 0) or failed is never
\* Active: it is stopping or stopped, has handled no frame, has forwarded no
\* ClientMessage and has written no text frame to the client socket.
C3_RejectedNeverRelays ==
    \A s \in live :
        RegistrationFailed(s) =>
            /\ flags[s] \in {"Stopping", "Stopped"}
            /\ rx[s] = <<>>
            /\ NumSent(s, "ClientMessage") = 0
            /\ \A i \in 1..Len(sock_out[s]) : sock_out[s][i].kind /= "Text"

C3_Witness ==
    \E s \in live :
        /\ RegistrationFailed(s)
        /\ flags[s] = "Stopped"
        /\ stream[s] /= <<>>
        /\ mailbox[s] /= <<>>

\* C4: a session never sends more than one Connect request, and a started
\* session has sent exactly one.
C4_ConnectOnce ==
    \A s \in live :
        /\ NumSent(s, "Connect") <= 1
        /\ flags[s] /= "Init" => NumSent(s, "Connect") = 1

C4_Witness ==
    \E s \in live :
        /\ flags[s] = "Stopped"
        /\ rx[s] /= <<>>
        /\ NumSent(s, "Connect") = 1

\* C5: the step in which an Active session handles a Terminate directive
\* writes a normal close frame to the socket and leaves the session Stopping.
C5_TerminateStops ==
    [][\A s \in live :
          ( /\ Lifecycle(s) = "Active"
            /\ mailbox[s] /= <<>>
            /\ Head(mailbox[s]).kind = "Terminate"
            /\ mailbox'[s] = Tail(mailbox[s]) )
          => /\ sock_out'[s] = Append(sock_out[s], CloseNormal)
             /\ Lifecycle(s)' = "Stopping"]_vars

Private(s) ==
    <<id[s], channel[s], hb[s], expiry[s], meta[s], initial_connect[s],
      flags[s], wait[s]>>

\* The step changes something of session s
Touched(s) ==
    \/ Private(s)' /= Private(s)
    \/ stream'[s] /= stream[s]
    \/ eof'[s] /= eof[s]
    \/ mailbox'[s] /= mailbox[s]
    \/ sent'[s] /= sent[s]
    \/ sock_out'[s] /= sock_out[s]
    \/ rx'[s] /= rx[s]

\* C7: a step of one session (its failure or stop included) leaves the
\* private state of every other session unchanged.
C7_SessionsIsolated ==
    [][\A s \in live : \A t \in live :
          (s /= t /\ Touched(s)) => Private(t)' = Private(t)]_vars

C7_Witness ==
    \E s \in live : \E t \in live :
        /\ s /= t
        /\ RegistrationFailed(s)
        /\ flags[s] = "Stopped"
        /\ Lifecycle(t) = "Active"
        /\ rx[t] /= <<>>

(***************************************************************************)
(* Properties of the remote address resolution.                            *)
(***************************************************************************)
\* The address is inside one of the trusted ranges
InTrustedRange(ip) == \E i \in 1..Len(proxy_list) : contains(proxy_list[i], ip)

PeerTrusted == peer /= None /\ InTrustedRange(Unwrap(peer).ip)
PeerUntrusted == peer /= None /\ ~InTrustedRange(Unwrap(peer).ip)

\* The forwarding header of the request, and its hops from left to right
Forwarded == headers["x-forwarded-for"]
IsText(header) == \A i \in 1..Len(header) : header[i] /= NonAscii
Hops == Split(Unwrap(Forwarded), ",")

\* Hop i, trimmed, is an address
HopParses(i) == ParseIpAddr(Trim(Hops[i])).ok
\* Hop i, trimmed, is an address outside every trusted range
HopOutside(i) == HopParses(i) /\ ~InTrustedRange(ParseIpAddr(Trim(Hops[i])).val)
\* Hop i, trimmed, is an address inside a trusted range
HopInside(i) == HopParses(i) /\ InTrustedRange(ParseIpAddr(Trim(Hops[i])).val)

\* The index of the rightmost hop outside every trusted range
RightmostOutside ==
    CHOOSE i \in 1..Len(Hops) :
        HopOutside(i) /\ \A j \in (i + 1)..Len(Hops) : ~HopOutside(j)

Resolved == remote /= None
Result == Unwrap(remote)

\* Header values an untrusted client may send
ProbeHeaders ==
    { None,
      Some(<<>>),
      Some(<<NonAscii>>),
      Some(<<"b", "a", "d">>),
      Some(<<"9", ".", "9", ".", "9", ".", "9">>),
      Some(<<"1", ".", "2", ".", "3", ".", "4", ",", "1", "9", "2", ".", "1",
             "6", "8", ".", "0", ".", "4">>) }

\* C8: for a peer outside every trusted range the resolver returns the
\* peer's IP, without port, and returns the same for any other forwarding
\* header (absent, empty, unparseable, spoofed).
C8_UntrustedPeerIgnoresHeader ==
    (Resolved /\ PeerUntrusted) =>
        /\ Result = Ok(FormatIpAddr(Unwrap(peer).ip))
        /\ \A i \in 1..Len(Result.val) : Result.val[i] /= ":"
        /\ \A h \in ProbeHeaders :
              get_remote(peer, [n \in HeaderNames |-> h], proxy_list) = Result

C8_Witness ==
    /\ Resolved
    /\ PeerUntrusted
    /\ Unwrap(peer).port /= 0
    /\ Forwarded = Some(<<"1", ".", "2", ".", "3", ".", "4">>)
    /\ Result = Ok(<<"2", ".", "3", ".", "4", ".", "5">>)

Unparseable(header) ==
    \/ ~IsText(header)
    \/ \A i \in 1..Len(Split(header, ",")) :
           ~ParseIpAddr(Trim(Split(header, ",")[i])).ok

\* C10: the resolver fails with BadRemoteAddrError when there is no peer
\* address, or when the peer is trusted and the forwarding header is
\* missing, empty, unparseable or made only of trusted hops; for a trusted
\* peer it never returns the peer's own address.
C10_FailsWithoutFallback ==
    Resolved =>
        /\ ( \/ peer = None
             \/ /\ PeerTrusted
                /\ \/ Forwarded = None
                   \/ Forwarded = Some(<<>>)
                   \/ Unparseable(Unwrap(Forwarded))
                   \/ \A i \in 1..Len(Hops) : HopInside(i) )
           => Result = Err("BadRemoteAddrError")
        /\ (PeerTrusted /\ Result.ok)
           => Result.val /= FormatIpAddr(Unwrap(peer).ip)

\* A trusted peer with a header of two hops, both trusted
C10_Witness ==
    /\ Resolved
    /\ PeerTrusted
    /\ Forwarded /= None
    /\ IsText(Unwrap(Forwarded))
    /\ Len(Hops) = 2
    /\ \A i \in 1..Len(Hops) : HopInside(i)
    /\ ~Result.ok

(***************************************************************************)
(* The language preference list.                                           *)
(***************************************************************************)
AcceptLanguage == headers["accept-language"]
\* The header is present and is text
AcceptLanguageIsText ==
    AcceptLanguage /= None /\ to_str(Unwrap(AcceptLanguage)).ok
\* The entries of the header, in the order they are declared
Entries == Split(Unwrap(AcceptLanguage), ",")
\* The entry carries a quality suffix
Weighted(entry) == str_contains(entry, ";")
\* The language tag of an entry
TagOf(entry) ==
    IF Weighted(entry) THEN Trim(to_ascii_lowercase(Split(entry, ";")[1]))
    ELSE to_ascii_lowercase(entry)
WeightedTags == { TagOf(Entries[i]) : i \in { j \in 1..Len(Entries) : Weighted(Entries[j]) } }
UnweightedTags ==
    { TagOf(Entries[i]) : i \in { j \in 1..Len(Entries) : ~Weighted(Entries[j]) } }
\* The ranked list without the default tag at its end
Ranked == SubSeq(Unwrap(langs), 1, Len(Unwrap(langs)) - 1)
IsUnweightedTag(tag) == tag \in UnweightedTags \ WeightedTags
IsWeightedTag(tag) == tag \in WeightedTags \ UnweightedTags

\* C11: in the list ranked from a header text, every tag of an entry without
\* a quality suffix stands before every tag of an entry with a quality suffix.
C11_UnweightedOutrankWeighted ==
    (langs /= None /\ AcceptLanguageIsText) =>
        \A p, q \in 1..Len(Ranked) :
            (IsUnweightedTag(Ranked[p]) /\ IsWeightedTag(Ranked[q])) => p < q

\* C12: in the list ranked from a header text, the tags of the entries
\* without a quality suffix stand in the order the entries are declared.
C12_DeclarationOrderKept ==
    (langs /= None /\ AcceptLanguageIsText) =>
        SelectSeq(Ranked, IsUnweightedTag)
            = SelectSeq([i \in 1..Len(Entries) |-> TagOf(Entries[i])],
                        IsUnweightedTag)

\* C13: the language list of a request ends with the default tag "en",
\* whatever the header is, text or not, present or absent.
C13_ListEndsWithDefault ==
    langs /= None =>
        /\ Unwrap(langs) /= <<>>
        /\ Unwrap(langs)[Len(Unwrap(langs))] = default_lang

(***************************************************************************)
(* The selection of a localized name.                                      *)
(***************************************************************************)
\* The first two characters of a tag, the tag itself when it is shorter
Primary(tag) == SubSeq(tag, 1, IF Len(tag) < 2 THEN Len(tag) ELSE 2)
\* The preference finds a name in the mapping
Matches(tag, map) ==
    \/ tag = <<"*">> /\ DOMAIN map /= {}
    \/ tag \in DOMAIN map
    \/ str_contains(tag, "-") /\ Primary(tag) \in DOMAIN map
\* The name a matching preference stands for
NameFor(tag, map) ==
    IF tag = <<"*">> THEN map[first_key(map)]
    ELSE IF tag \in DOMAIN map THEN map[tag]
    ELSE map[Primary(tag)]
\* The name of the first preference that matches, absent when none does
FirstMatch(ls, map) ==
    IF \E i \in 1..Len(ls) : Matches(ls[i], map)
    THEN LET i == CHOOSE j \in 1..Len(ls) :
                      /\ Matches(ls[j], map)
                      /\ \A k \in 1..(j - 1) : ~Matches(ls[k], map)
         IN Some(NameFor(ls[i], map))
    ELSE None

\* C14: for every preference list and mapping the selector returns the name
\* of the first preference that matches ("*": the name under the smallest
\* key; a tag present verbatim: its name; a tag with "-": the name under its
\* first two characters), absent when none matches, and some name whenever
\* "*" is in the list and the mapping is not empty.
C14_FirstMatchingPreference ==
    element /= None =>
        /\ Unwrap(element) = Ok(FirstMatch(Unwrap(langs), elements))
        /\ ((\E i \in 1..Len(Unwrap(langs)) : Unwrap(langs)[i] = <<"*">>)
                /\ DOMAIN elements /= {})
            => (Unwrap(element).ok /\ Unwrap(element).val /= None)

\* C15: the selector returns for every preference list, also one with tags
\* outside ASCII, tags shorter than two characters and such tags with "-":
\* it never panics, and it splits a tag after its first two code points.
C15_SelectorNeverPanics ==
    element /= None =>
        /\ Unwrap(element).ok
        /\ \A i \in 1..Len(Unwrap(langs)) :
               LET tag == Unwrap(langs)[i] IN
               str_contains(tag, "-") =>
                   /\ split_at(tag, 2).ok
                   /\ split_at(tag, 2).val[1] = Primary(tag)

(***************************************************************************)
(* The metadata and the relay of a session.                                *)
(***************************************************************************)
IsClientMessage(m) == m.type = "ClientMessage"
IsTextFrame(f) == f.kind = "Text"
\* The ClientMessages the session has sent to the registry, in order
Relayed(s) == SelectSeq(sent[s], IsClientMessage)
\* The text frames the session has handled, in order
TextsHandled(s) == SelectSeq(rx[s], IsTextFrame)

\* C16: the metadata of a session never changes, from its creation to
\* Stopped, and every ClientMessage of the session carries that metadata.
C16_MetadataImmutable ==
    /\ [][\A s \in live : meta'[s] = meta[s]]_vars
    /\ [](\A s \in live : \A i \in 1..Len(Relayed(s)) :
            Relayed(s)[i].sender = meta[s])

C16_Witness ==
    \E s \in live :
        /\ flags[s] = "Stopped"
        /\ meta[s] = FullSenderData
        /\ Relayed(s) /= <<>>

\* C17: the ClientMessages of a session are its inbound text frames, one for
\* one and in the order of arrival; each carries the trimmed payload, the
\* channel of the session and the nonzero id the registry returned.
C17_RelayInOrder ==
    /\ [](\A s \in live :
            /\ Len(Relayed(s)) = Len(TextsHandled(s))
            /\ \A i \in 1..Len(Relayed(s)) :
                 /\ Relayed(s)[i].message = Trim(TextsHandled(s)[i].data)
                 /\ Relayed(s)[i].channel = channel[s]
                 /\ Relayed(s)[i].id = SessionIdOf(s)
                 /\ Relayed(s)[i].id /= 0)
    /\ [][\A s \in live :
            /\ rx'[s] /= rx[s] =>
                 /\ stream[s] /= <<>>
                 /\ rx'[s] = Append(rx[s], Head(stream[s]))
                 /\ stream'[s] = Tail(stream[s])
            /\ (stream'[s] /= stream[s] /\ rx'[s] = rx[s]) =>
                 \E f \in ClientFrames : stream'[s] = Append(stream[s], f)]_vars

C17_Witness ==
    \E s \in live :
        /\ Len(Relayed(s)) = 2
        /\ Relayed(s)[1].message = <<"y", "o">>
        /\ Relayed(s)[2].message = <<"h", "i">>
        /\ Lifecycle(s) = "Active"

\* The frame the session handles in this step
Handled(s) == Head(stream[s])
\* The session handles a frame of one of the kinds in this step
Handles(s, kinds) ==
    /\ rx'[s] /= rx[s]
    /\ Handled(s).kind \in kinds

\* C18 as stated: handling a ping, pong, text or binary frame sets the last
\* heartbeat to the current time, so the silence check does not hold.
C18_EveryFrameRefreshes ==
    [][\A s \in live :
        Handles(s, {"Ping", "Pong", "Text", "Binary"}) =>
            /\ hb'[s] = now'
            /\ ~(now' - hb'[s] > client_timeout)]_vars

\* C18 amended: handling a ping, pong or text frame sets the last heartbeat
\* to the current time, so the silence check does not hold; handling a
\* binary frame leaves the last heartbeat as it was.
C18_LivenessFramesRefresh ==
    [][\A s \in live :
        /\ Handles(s, {"Ping", "Pong", "Text"}) =>
            /\ hb'[s] = now'
            /\ ~(now' - hb'[s] > client_timeout)
        /\ Handles(s, {"Binary"}) => hb'[s] = hb[s]]_vars

C18_Witness ==
    \E s \in live :
        /\ Len(rx[s]) = 2
        /\ rx[s][1].kind = "Binary"
        /\ rx[s][2].kind = "Pong"
        /\ now > 0
        /\ hb[s] = now

\* The place of a lifecycle state in the order of the lifecycle
LifecycleRank(state) ==
    CASE state = "Starting" -> 0
      [] state = "Active" -> 1
      [] state = "Stopping" -> 2
      [] state = "Stopped" -> 3
\* The session has sent a Disconnect notice or has handled a close frame,
\* a terminate directive or a heartbeat timeout
StopTriggered(s) ==
    \/ NumSent(s, "Disconnect") > 0
    \/ \E i \in 1..Len(rx[s]) : rx[s][i].kind = "Close"
    \/ \E i \in 1..Len(sock_out[s]) : sock_out[s][i] = CloseNormal
    \/ flags[s] \in {"Stopping", "Stopped"}

\* C19: the lifecycle of a session only moves forward, and a session that
\* has sent a Disconnect notice or handled a stop trigger sends no further
\* ClientMessage.
C19_NoRelayAfterStop ==
    [][\A s \in live :
        /\ LifecycleRank(Lifecycle(s)') >= LifecycleRank(Lifecycle(s))
        /\ StopTriggered(s) =>
               NumSent(s, "ClientMessage")' = NumSent(s, "ClientMessage")]_vars

(***************************************************************************)
(* The connection metadata.                                                *)
(***************************************************************************)
\* The remote address of the request cannot be resolved
ResolutionFails == ~get_remote(peer, headers, proxy_list).ok
\* The user agent header as text, absent when it is missing, empty or not text
UserAgent ==
    LET ua == headers["user-agent"] IN
    IF ua = None \/ ua = Some(<<>>) \/ ~to_str(Unwrap(ua)).ok THEN None ELSE ua

\* C20: the builder produces a metadata record for every connection; when
\* the remote address cannot be resolved the record has no remote address,
\* no city, region or country, and the user agent of the header.
C20_BuilderNeverFails ==
    sender /= None =>
        /\ Unwrap(sender).ok
        /\ ResolutionFails =>
               /\ Unwrap(sender).val.remote = None
               /\ Unwrap(sender).val.city = None
               /\ Unwrap(sender).val.region = None
               /\ Unwrap(sender).val.country = None
               /\ Unwrap(sender).val.ua = UserAgent

(***************************************************************************)
(* Geo enrichment.                                                         *)
(***************************************************************************)
\* The text is a port number
IsPort(str) == str /= <<>> /\ \A i \in 1..Len(str) : IsDigit(str[i])
\* The address of an address text: the text itself when it is an address,
\* the text before ":port" when that is an address
AddressOnly(r) ==
    IF parse_loc(r).ok THEN r
    ELSE IF \E i \in 1..Len(r) :
                /\ r[i] = ":"
                /\ IsPort(SubSeq(r, i + 1, Len(r)))
                /\ parse_loc(SubSeq(r, 1, i - 1)).ok
    THEN LET i == CHOOSE j \in 1..Len(r) :
                      /\ r[j] = ":"
                      /\ IsPort(SubSeq(r, j + 1, Len(r)))
                      /\ parse_loc(SubSeq(r, 1, j - 1)).ok
         IN SubSeq(r, 1, i - 1)
    ELSE r
\* The remote address given to geo enrichment
Resolved21 == Unwrap(remote).val

\* C21: geo enrichment looks up the address of the resolved text, a trailing
\* ":port" removed and an address without port, IPv4 or IPv6, unchanged: a
\* sender whose address the database knows gets its names; the remote field
\* of the sender stays as it was.
C21_LooksUpAddressOnly ==
    sender /= None =>
        /\ Unwrap(sender).ok
        /\ Unwrap(sender).val.remote = Some(Resolved21)
        /\ strip_port(Resolved21) = AddressOnly(Resolved21)
        /\ LET loc == parse_loc(AddressOnly(Resolved21)) IN
           (loc.ok /\ lookup(iploc, loc.val).ok)
               => Unwrap(sender)
                    = locate([NoSenderData EXCEPT !.remote = Some(Resolved21)],
                             Unwrap(langs), lookup(iploc, loc.val).val)

\* C22: whenever the resolver succeeds, the text it returns is an address
\* and the address lies outside every trusted range.
C22_ResultIsUntrustedAddress ==
    (Resolved /\ Result.ok) =>
        /\ ParseIpAddr(Result.val).ok
        /\ ~InTrustedRange(ParseIpAddr(Result.val).val)

C22_Witness ==
    /\ Resolved
    /\ Result.ok
    /\ PeerTrusted
    /\ Len(proxy_list) = 1
    /\ Len(Hops) = 2
    /\ Hops[1] /= Trim(Hops[1])
    /\ HopOutside(1)
    /\ HopInside(2)
    /\ Result.val = Trim(Hops[1])

(***************************************************************************)
(* The stop of a session that was never registered.                        *)
(***************************************************************************)
\* The Disconnect notices the session has sent to the registry
Notices(s) == { i \in 1..Len(sent[s]) : sent[s][i].type = "Disconnect" }

\* C23: a session whose registration was rejected (id 0) or whose Connect
\* request failed has, once stopped, sent a Disconnect notice, and its
\* notices carry the id 0 and the channel of the session.
C23_RejectedSendsDisconnectZero ==
    \A s \in live :
        RegistrationFailed(s) =>
            /\ flags[s] = "Stopped" => Notices(s) /= {}
            /\ \A i \in Notices(s) :
                 /\ sent[s][i].id = 0
                 /\ sent[s][i].channel = channel[s]

C23_Witness ==
    \E s \in live :
        /\ RegistrationFailed(s)
        /\ flags[s] = "Stopped"
        /\ \E i \in Notices(s) :
             sent[s][i].id = 0 /\ sent[s][i].channel = channel[s]
        /\ rx[s] = <<>>

(***************************************************************************)
(* The keys of the preference ranker.                                      *)
(***************************************************************************)
\* The key of entry i of the header: the text of its quality suffix, or the
\* synthetic key of its place among the entries without suffix
KeyOf(i) ==
    IF Weighted(Entries[i])
    THEN Trim(to_ascii_lowercase(Split(Entries[i], ";")[2]))
    ELSE synthetic_key(Cardinality({ j \in 1..(i - 1) : ~Weighted(Entries[j]) }))
Keys == { KeyOf(i) : i \in 1..Len(Entries) }
\* The entry declared last among those with the key
LastWith(key) ==
    CHOOSE i \in 1..Len(Entries) :
        /\ KeyOf(i) = key
        /\ \A j \in (i + 1)..Len(Entries) : KeyOf(j) /= key

\* C24: the list ranked from a header text has one tag for every distinct
\* key and the default tag: of the entries with the same quality suffix only
\* the tag of the one declared last is in the list.
C24_EqualSuffixesCollapse ==
    (langs /= None /\ AcceptLanguageIsText) =>
        /\ Len(Unwrap(langs)) = Cardinality(Keys) + 1
        /\ { Ranked[p] : p \in 1..Len(Ranked) }
               = { TagOf(Entries[LastWith(key)]) : key \in Keys }

C24_Witness ==
    /\ langs /= None
    /\ AcceptLanguageIsText
    /\ Len(Entries) = 2
    /\ KeyOf(1) = KeyOf(2)
    /\ TagOf(Entries[1]) = <<"e", "n">>
    /\ Unwrap(langs) = <<<<"i", "t">>, default_lang>>

====
